---- MODULE Spec2Model ----
(***************************************************************************)
(* A model of the octodet-elasticsearch-mcp server: configuration          *)
(* validation and client construction at startup, and the sixteen tool     *)
(* handlers, each of which makes one StoreClient call and shapes its       *)
(* outcome into a response envelope.                                       *)
(*                                                                         *)
(* JavaScript values are modelled as follows.  A value that may be         *)
(* undefined is a sequence of length 0 (undefined) or 1.  A text is the sequence of its    *)
(* lines (the text split at "\n"), each line a TLA+ string built with \o   *)
(* and ToString the way the template literals build it.  An object that    *)
(* the code only passes on or serialises is a record that carries its JSON *)
(* text, which counts as one line.                                         *)
(***************************************************************************)
EXTENDS Integers, Sequences, FiniteSets, TLC

VARIABLES phase, config, validatedConfig, client, tools, stderr, exitCode, inv

vars == <<phase, config, validatedConfig, client, tools, stderr, exitCode, inv>>

(***************************************************************************)
(* Bounds of the model.                                                    *)
(***************************************************************************)
\* longest bulk operation list drawn from every kind of operation
MaxOps == 2
\* longest bulk operation list / failure list drawn from two kinds only
MaxLong == 6
\* longest failure list of a query mutation drawn from every kind of failure
MaxFailures == 2
\* longest list of hits of a search result, of rows of a cat response
MaxHits == 1

(***************************************************************************)
(* Optional values and JavaScript truthiness.                              *)
(***************************************************************************)
None == <<>>
Some(v) == <<v>>
Opt(S) == {None} \cup {Some(v) : v \in S}
Present(o) == o # None

\* !x for an optional string: undefined and "" are falsy
TruthyStr(o) == o # None /\ o[1] # ""
\* !x for an optional number: undefined and 0 are falsy
TruthyNum(o) == o # None /\ o[1] # 0
\* `${x}` for an optional string
Interp(o) == IF o = None THEN "undefined" ELSE o[1]
\* x || d for an optional string
OrElse(o, d) == IF TruthyStr(o) THEN o[1] ELSE d
\* x || d for an optional number
OrElseNum(o, d) == IF TruthyNum(o) THEN o[1] ELSE d

Min(a, b) == IF a < b THEN a ELSE b

SeqsUpTo(S, n) == UNION {[1..k -> S] : k \in 0..n}

\* arr.slice(0, n)
Slice(s, n) == SubSeq(s, 1, Min(Len(s), n))

(***************************************************************************)
(* Configuration: ConfigSchema and ElasticsearchService.createClient.      *)
(***************************************************************************)
Urls == {"", " ", "http://localhost:9200"}
Versions == {"", "7", "8", "9"}

\* z.string().trim() on the strings of the model
Trim(s) == CASE s = " " -> "" [] s = " a" -> "a" [] OTHER -> s

ElasticsearchConfig ==
  [url : Urls, apiKey : Opt({"key"}), username : Opt({"elastic"}),
   password : Opt({"secret"}), pathPrefix : Opt({"/es"}),
   version : Opt(Versions), sslSkipVerify : Opt(BOOLEAN)]

\* VersionTransform giving "8" to an absent version only
VersionTransformAbsentOnly(v) == IF v = None THEN "8" ELSE v[1]

\* version: .transform((val) => (["8","9"].includes(val || "") ? val : "8"))
VersionTransform(v) == IF v \in {Some("8"), Some("9")} THEN v[1] ELSE "8"

\* UrlOk without .trim()
UrlOkUntrimmed(c) == c.url # ""

\* url: z.string().trim().min(1)
UrlOk(c) == Trim(c.url) # ""

\* .refine((data) => ...)
AuthRefine(c) ==
  IF Present(c.apiKey) THEN TRUE
  ELSE IF Present(c.username) THEN Present(c.password)
  ELSE TRUE

\* ConfigSchema.parse succeeds
ConfigAccepted(c) == UrlOk(c) /\ AuthRefine(c)

\* the value ConfigSchema.parse returns
ConfigParsed(c) ==
  [c EXCEPT !.url = Trim(c.url), !.version = Some(VersionTransform(c.version))]

\* ClientAuth preferring username and password to the API key
ClientAuthBasicFirst(c) ==
  IF Present(c.username) /\ Present(c.password)
  THEN [mode |-> "basic", username |-> c.username[1], password |-> c.password[1]]
  ELSE IF Present(c.apiKey) THEN [mode |-> "apiKey", apiKey |-> c.apiKey[1]]
       ELSE [mode |-> "none"]

\* clientOptions.auth
ClientAuth(c) ==
  IF Present(c.apiKey) THEN [mode |-> "apiKey", apiKey |-> c.apiKey[1]]
  ELSE IF Present(c.username) /\ Present(c.password)
       THEN [mode |-> "basic", username |-> c.username[1], password |-> c.password[1]]
       ELSE [mode |-> "none"]

\* the version-specific client options
ClientRetry(c) ==
  IF c.version \in {Some("8"), Some("9")}
  THEN [maxRetries |-> Some(5), requestTimeout |-> Some(30000)]
  ELSE [maxRetries |-> None, requestTimeout |-> None]

\* ElasticsearchService.createClient
createClient(c) ==
  [node |-> c.url,
   pathPrefix |-> c.pathPrefix,
   auth |-> ClientAuth(c),
   maxRetries |-> ClientRetry(c).maxRetries,
   requestTimeout |-> ClientRetry(c).requestTimeout,
   compat8 |-> (c.version = Some("8")),
   rejectUnauthorized |-> (c.sslSkipVerify # Some(TRUE))]

(***************************************************************************)
(* Values shared by the tool handlers.                                     *)
(***************************************************************************)
\* slice(0, 5): the number of failure lines a report lists
FailureLimit == 5

ToolNames ==
  {"list_indices", "get_mappings", "search", "get_cluster_health", "get_shards",
   "add_document", "update_document", "delete_document", "update_by_query",
   "delete_by_query", "bulk", "create_index", "delete_index", "count_documents",
   "get_templates", "get_aliases"}

\* { type: "text", text }, text being the sequence of its lines
Frag(t) == [type |-> "text", text |-> t]

\* an object-valued property as it is pushed or passed on: the object, or undefined
Undefined == [undefined |-> TRUE]
Unwrap(o) == IF o = None THEN Undefined ELSE o[1]
\* { type: "text", text: undefined }: JSON.stringify(undefined) is undefined
FragUndefined == [type |-> "text"]

\* what a StoreClient call may throw: an Error, or a value that is no Error
Thrown ==
  {[kind |-> "Error", message |-> "index_not_found_exception"],
   [kind |-> "number", value |-> 503]}

\* error instanceof Error ? error.message : String(error)
ErrMessage(e) == IF e.kind = "Error" THEN e.message ELSE ToString(e.value)

\* the TypeError of reading property p of undefined
TypeErrorOf(p) ==
  [kind |-> "Error",
   message |-> "Cannot read properties of undefined (reading '" \o p \o "')"]

\* an object the handlers only serialise, with its JSON.stringify(v, null, 2)
Obj(j) == [json |-> j]
JSONstringify(v) == v.json

\* ErrorPrefix with the same text in every handler
ErrorPrefixUniform(tool) == "Error: "

\* the text that precedes the message in a handler's error envelope
ErrorPrefix(tool) ==
  CASE tool = "add_document" -> "Error adding document: "
    [] tool = "update_document" -> "Error updating document: "
    [] tool = "delete_document" -> "Error deleting document: "
    [] OTHER -> "Error: "

\* the text that precedes the message in a handler's console.error, if it has one
LogPrefix(tool) ==
  CASE tool = "list_indices" -> Some("Failed to list indices: ")
    [] tool = "get_mappings" -> Some("Failed to get mappings: ")
    [] tool = "search" -> Some("Search failed: ")
    [] tool = "get_cluster_health" -> Some("Failed to get cluster health: ")
    [] tool = "get_shards" -> Some("Failed to get shard information: ")
    [] tool = "update_by_query" -> Some("Update by query failed: ")
    [] tool = "delete_by_query" -> Some("Delete by query failed: ")
    [] tool = "bulk" -> Some("Bulk operation failed: ")
    [] tool = "create_index" -> Some("Failed to create index: ")
    [] tool = "delete_index" -> Some("Failed to delete index: ")
    [] tool = "count_documents" -> Some("Failed to count documents: ")
    [] tool = "get_templates" -> Some("Failed to get templates: ")
    [] tool = "get_aliases" -> Some("Failed to get aliases: ")
    [] OTHER -> None

\* Catch letting the error escape the handler
CatchRethrows(tool, e) ==
  [pc |-> "escaped", logged |-> <<>>, summary |-> None, content |-> <<>>]

\* a handler's catch block: what it logs and the envelope it returns
Catch(tool, e) ==
  [pc |-> "returned",
   logged |-> IF LogPrefix(tool) = None THEN <<>>
              ELSE <<LogPrefix(tool)[1] \o ErrMessage(e)>>,
   summary |-> None,
   content |-> <<Frag(<<ErrorPrefix(tool) \o ErrMessage(e)>>)>>]

\* a handler's return statement inside its try block
Return(content) ==
  [pc |-> "returned", logged |-> <<>>, summary |-> None, content |-> content]

(***************************************************************************)
(* update_by_query and delete_by_query.                                    *)
(***************************************************************************)
\* ZodDefaultTrue with the default the other way round
ZodDefaultFalse(o) == IF o = None THEN FALSE ELSE o[1]

\* z.boolean().optional().default(true)
ZodDefaultTrue(o) == IF o = None THEN TRUE ELSE o[1]

\* QueryParams sending the store's defaults for the arguments left out
QueryParamsWithDefaults(tool, args) ==
  [index |-> args.index,
   body |-> IF tool = "update_by_query"
            THEN [query |-> args.query,
                  script |-> [source |-> args.script.source,
                              params |-> args.script.params]]
            ELSE [query |-> args.query],
   refresh |-> (ZodDefaultTrue(args.refresh) # FALSE),
   conflicts |-> IF TruthyStr(args.conflicts) THEN args.conflicts ELSE Some("abort"),
   max_docs |-> IF TruthyNum(args.maxDocs) THEN args.maxDocs ELSE Some(0)]

\* the params object a query mutation handler builds
QueryParams(tool, args) ==
  [index |-> args.index,
   body |-> IF tool = "update_by_query"
            THEN [query |-> args.query,
                  script |-> [source |-> args.script.source,
                              params |-> args.script.params]]
            ELSE [query |-> args.query],
   refresh |-> (ZodDefaultTrue(args.refresh) # FALSE),
   conflicts |-> IF TruthyStr(args.conflicts) THEN args.conflicts ELSE None,
   max_docs |-> IF TruthyNum(args.maxDocs) THEN args.maxDocs ELSE None]

\* failure.cause?.reason || "Unknown"
FailureReason(f) ==
  IF f.cause = None THEN "Unknown" ELSE OrElse(f.cause[1].reason, "Unknown")

\* the failure line of update_by_query: `${index + 1}. ID: ${failure.id}, Reason: ...`
UpdateFailureLine(f, k) ==
  ToString(k) \o ". ID: " \o Interp(f.id) \o ", Reason: " \o FailureReason(f)

\* the failure line of delete_by_query: `${idx + 1}. ID: ${failure.id || "unknown"}, ...`
DeleteFailureLine(f, k) ==
  ToString(k) \o ". ID: " \o OrElse(f.id, "unknown") \o ", Reason: " \o FailureReason(f)

QueryFailureLine(tool, f, k) ==
  IF tool = "update_by_query" THEN UpdateFailureLine(f, k) ELSE DeleteFailureLine(f, k)

\* Overflow with >= for >
OverflowAtLimit(n) ==
  IF n >= FailureLimit
  THEN <<"...and " \o ToString(n - FailureLimit) \o " more failures.">>
  ELSE <<>>

\* if (n > 5) `...and ${n - 5} more failures.`
Overflow(n) ==
  IF n > FailureLimit
  THEN <<"...and " \o ToString(n - FailureLimit) \o " more failures.">>
  ELSE <<>>

\* response.failures?.length || 0
FailureCount(r) == IF r.failures = None THEN 0 ELSE Len(r.failures[1])

\* if (response.failures && response.failures.length > 0) { ... }
QueryFailureSection(tool, r) ==
  IF r.failures # None /\ Len(r.failures[1]) > 0
  THEN LET shown == Slice(r.failures[1], FailureLimit)
       IN <<"", "Failures:">>
          \o [k \in 1..Len(shown) |-> QueryFailureLine(tool, shown[k], k)]
          \o Overflow(Len(r.failures[1]))
  ELSE <<>>

\* resultText of update_by_query
UpdateByQueryReport(args, r) ==
  <<"Update by query completed successfully in index '" \o args.index \o "':",
    "- Total documents processed: " \o ToString(r.total),
    "- Documents updated: " \o ToString(r.updated),
    "- Documents that failed: " \o ToString(FailureCount(r)),
    "- Time taken: " \o ToString(r.took) \o "ms">>
  \o QueryFailureSection("update_by_query", r)

\* DeleteByQueryReport with the conflicts line whenever the count is there
DeleteByQueryReportAnyConflicts(args, r) ==
  <<"Delete by query completed successfully in index '" \o args.index \o "':",
    "- Total documents processed: " \o ToString(r.total),
    "- Documents deleted: " \o ToString(r.deleted),
    "- Deletion failures: " \o ToString(FailureCount(r)),
    "- Time taken: " \o ToString(r.took) \o "ms">>
  \o (IF r.version_conflicts # None
      THEN <<"- Version conflicts: " \o ToString(r.version_conflicts[1])>>
      ELSE <<>>)
  \o QueryFailureSection("delete_by_query", r)

\* resultText of delete_by_query
DeleteByQueryReport(args, r) ==
  <<"Delete by query completed successfully in index '" \o args.index \o "':",
    "- Total documents processed: " \o ToString(r.total),
    "- Documents deleted: " \o ToString(r.deleted),
    "- Deletion failures: " \o ToString(FailureCount(r)),
    "- Time taken: " \o ToString(r.took) \o "ms">>
  \o (IF TruthyNum(r.version_conflicts) /\ r.version_conflicts[1] > 0
      THEN <<"- Version conflicts: " \o ToString(r.version_conflicts[1])>>
      ELSE <<>>)
  \o QueryFailureSection("delete_by_query", r)

(***************************************************************************)
(* bulk: validation, the wire sequence, the summary and the report.        *)
(***************************************************************************)
\* OpError with the two checks in the other order
OpErrorBodyFirst(op, k) ==
  IF op.action \in {"index", "create", "update"} /\ op.document = None
  THEN Some("Operation #" \o ToString(k) \o " (" \o op.action
            \o "): Document body is required")
  ELSE IF op.action \in {"update", "delete"} /\ ~TruthyStr(op.id)
       THEN Some("Operation #" \o ToString(k) \o " (" \o op.action
                 \o "): Document ID is required")
       ELSE None

\* the error the validation loop throws for the operation at 1-based position k
OpError(op, k) ==
  IF op.action \in {"update", "delete"} /\ ~TruthyStr(op.id)
  THEN Some("Operation #" \o ToString(k) \o " (" \o op.action
            \o "): Document ID is required")
  ELSE IF op.action \in {"index", "create", "update"} /\ op.document = None
       THEN Some("Operation #" \o ToString(k) \o " (" \o op.action
                 \o "): Document body is required")
       ELSE None

RECURSIVE ValidateFrom(_, _)
\* operations.forEach((op, idx) => { ... throw ... }) from position k on
ValidateFrom(ops, k) ==
  IF k > Len(ops) THEN None
  ELSE IF OpError(ops[k], k) # None THEN OpError(ops[k], k)
       ELSE ValidateFrom(ops, k + 1)

\* ValidateOperations looking at the first operation only
ValidateFirstOnly(ops) == OpError(ops[1], 1)

\* the message of the Error the validation throws, if it throws
ValidateOperations(ops) == ValidateFrom(ops, 1)

\* WireEntries without the payload entry of an update
WireEntriesNoUpdatePayload(op) ==
  LET actionMeta == [_index |-> op.index,
                     _id |-> IF TruthyStr(op.id) THEN op.id ELSE None]
  IN <<op.action :> actionMeta>>
     \o (IF op.action \notin {"delete", "update"} THEN <<Unwrap(op.document)>> ELSE <<>>)

\* WireEntries pushing the raw document for an update too
WireEntriesUpdateRaw(op) ==
  LET actionMeta == [_index |-> op.index,
                     _id |-> IF TruthyStr(op.id) THEN op.id ELSE None]
  IN <<op.action :> actionMeta>>
     \o (IF op.action # "delete" THEN <<Unwrap(op.document)>> ELSE <<>>)

\* the entries one operation pushes on bulkOperations
WireEntries(op) ==
  LET actionMeta == [_index |-> op.index,
                     _id |-> IF TruthyStr(op.id) THEN op.id ELSE None]
  IN <<op.action :> actionMeta>>
     \o (IF op.action # "delete"
         THEN IF op.action = "update" THEN <<[doc |-> Unwrap(op.document)]>>
              ELSE <<Unwrap(op.document)>>
         ELSE <<>>)

RECURSIVE BuildBulkOperations(_)
\* operations.forEach((op) => { bulkOperations.push(...) })
BuildBulkOperations(ops) ==
  IF ops = <<>> THEN <<>>
  ELSE WireEntries(Head(ops)) \o BuildBulkOperations(Tail(ops))

\* item[Object.keys(item)[0]]: the result under the item's first key, if any
ItemResult(item) ==
  IF DOMAIN item = {} THEN None
  ELSE item[CHOOSE k \in DOMAIN item : TRUE]

\* ActionResult telling a failure by the status, not by the error marker
ActionResultByStatus(item, idx) ==
  LET actionType == CHOOSE k \in DOMAIN item : TRUE
      result == item[actionType][1]
  IN IF OrElseNum(result.status, 0) >= 400
     THEN [operation |-> idx, action |-> actionType,
           id |-> OrElse(result._id, "unknown"),
           index |-> OrElse(result._index, "unknown"),
           status |-> OrElseNum(result.status, 0),
           error |-> [type |-> "unknown_error", reason |-> "Unknown error"]]
     ELSE [operation |-> idx, action |-> actionType,
           id |-> OrElse(result._id, "unknown"),
           index |-> OrElse(result._index, "unknown"),
           status |-> OrElseNum(result.status, 0),
           result |-> OrElse(result.result, "unknown")]

\* the record pushed on summary.actionResults for a result at zero-based position idx
ActionResult(item, idx) ==
  LET actionType == CHOOSE k \in DOMAIN item : TRUE
      result == item[actionType][1]
  IN IF result.error # None
     THEN [operation |-> idx, action |-> actionType,
           id |-> OrElse(result._id, "unknown"),
           index |-> OrElse(result._index, "unknown"),
           status |-> OrElseNum(result.status, 0),
           error |-> [type |-> OrElse(result.error[1].type, "unknown_error"),
                      reason |-> OrElse(result.error[1].reason, "Unknown error")]]
     ELSE [operation |-> idx, action |-> actionType,
           id |-> OrElse(result._id, "unknown"),
           index |-> OrElse(result._index, "unknown"),
           status |-> OrElseNum(result.status, 0),
           result |-> OrElse(result.result, "unknown")]

\* r.error of a summary record
IsFailure(r) == "error" \in DOMAIN r

\* CountItem counting a failure without recording it
CountItemLosesFailure(summary, item, idx) ==
  IF ItemResult(item) = None THEN summary
  ELSE IF IsFailure(ActionResult(item, idx))
       THEN [summary EXCEPT !.failures = @ + 1]
       ELSE [summary EXCEPT !.successes = @ + 1,
                            !.actionResults = Append(@, ActionResult(item, idx))]

\* one turn of response.items.forEach((item, idx) => { ... })
CountItem(summary, item, idx) ==
  IF ItemResult(item) = None THEN summary
  ELSE IF IsFailure(ActionResult(item, idx))
       THEN [summary EXCEPT !.failures = @ + 1,
                            !.actionResults = Append(@, ActionResult(item, idx))]
       ELSE [summary EXCEPT !.successes = @ + 1,
                            !.actionResults = Append(@, ActionResult(item, idx))]

RECURSIVE CountFrom(_, _, _)
CountFrom(summary, items, idx) ==
  IF idx >= Len(items) THEN summary
  ELSE CountFrom(CountItem(summary, items[idx + 1], idx), items, idx + 1)

\* the summary object once the items are counted
Summarize(response) ==
  CountFrom([took |-> response.took, errors |-> response.errors,
             successes |-> 0, failures |-> 0, actionResults |-> <<>>],
            response.items, 0)

RECURSIVE FailuresOf(_)
\* summary.actionResults.filter((r) => r.error)
FailuresOf(rs) ==
  IF rs = <<>> THEN <<>>
  ELSE (IF IsFailure(Head(rs)) THEN <<Head(rs)>> ELSE <<>>) \o FailuresOf(Tail(rs))

\* BulkFailureLine numbering the operations from 1, as the validation does
BulkFailureLineOneBased(f, k) ==
  ToString(k) \o ". Operation #" \o ToString(f.operation + 1) \o " (" \o f.action
  \o "): " \o f.error.reason \o " [" \o f.error.type \o "]"

\* `${idx + 1}. Operation #${failure.operation} (${failure.action}): reason [type]`
BulkFailureLine(f, k) ==
  ToString(k) \o ". Operation #" \o ToString(f.operation) \o " (" \o f.action
  \o "): " \o f.error.reason \o " [" \o f.error.type \o "]"

\* BulkReport turning an answer with failed items into an error text
BulkReportErrorOnFailures(operations, summary) ==
  IF summary.failures > 0
  THEN <<"Error: " \o ToString(summary.failures) \o " operations failed">>
  ELSE <<"Bulk operation completed in " \o ToString(summary.took) \o "ms",
         "- Total operations: " \o ToString(Len(operations)),
         "- Successful: " \o ToString(summary.successes),
         "- Failed: " \o ToString(summary.failures), "">>

\* resultText of bulk; every line of it ends with "\n", hence the last, empty line
BulkReport(operations, summary) ==
  <<"Bulk operation completed in " \o ToString(summary.took) \o "ms",
    "- Total operations: " \o ToString(Len(operations)),
    "- Successful: " \o ToString(summary.successes),
    "- Failed: " \o ToString(summary.failures)>>
  \o (IF summary.failures > 0
      THEN LET failures == FailuresOf(summary.actionResults)
               shown == Slice(failures, FailureLimit)
           IN <<"", "Failures:">>
              \o [k \in 1..Len(shown) |-> BulkFailureLine(shown[k], k)]
              \o Overflow(Len(failures))
      ELSE <<>>)
  \o <<"">>

(***************************************************************************)
(* search: the request and the rendering of the result.                    *)
(***************************************************************************)
\* this.client.search({ index, ...queryBody })
SearchParams(index, queryBody) ==
  [index |-> IF Present(queryBody.index) THEN queryBody.index[1] ELSE index,
   query |-> queryBody.query,
   from |-> queryBody.from]

\* typeof total === "number" ? total : total?.value ?? 0
TotalOf(total) ==
  IF total = None THEN 0
  ELSE IF total[1].kind = "number" THEN total[1].n
       ELSE IF total[1].value = None THEN 0 ELSE total[1].value[1]

RECURSIVE Join(_, _)
\* highlights.join(sep)
Join(ss, sep) ==
  IF ss = <<>> THEN ""
  ELSE IF Len(ss) = 1 THEN ss[1]
       ELSE ss[1] \o sep \o Join(Tail(ss), sep)

\* the names of the entries of an object
Keys(entries) == {entries[k].field : k \in 1..Len(entries)}

RECURSIVE HighlightLines(_)
\* for (const [field, highlights] of Object.entries(highlightedFields)) { ... }
HighlightLines(hl) ==
  IF hl = <<>> THEN <<>>
  ELSE (IF Head(hl).isArray /\ Len(Head(hl).highlights) > 0
        THEN <<Head(hl).field \o " (highlighted): "
               \o Join(Head(hl).highlights, " ... ")>>
        ELSE <<>>)
       \o HighlightLines(Tail(hl))

RECURSIVE SourceLines(_, _)
\* for (const [field, value] of Object.entries(sourceData)) { ... }
SourceLines(src, highlighted) ==
  IF src = <<>> THEN <<>>
  ELSE (IF Head(src).field \notin highlighted
        THEN <<Head(src).field \o ": " \o JSONstringify(Head(src).value)>>
        ELSE <<>>)
       \o SourceLines(Tail(src), highlighted)

RECURSIVE TrimEnd(_)
\* the trailing empty lines that content.trim() removes
TrimEnd(lines) ==
  IF lines # <<>> /\ lines[Len(lines)] = ""
  THEN TrimEnd(SubSeq(lines, 1, Len(lines) - 1))
  ELSE lines

\* the fragment text of one hit
HitText(hit) ==
  LET highlightedFields == IF hit.highlight = None THEN <<>> ELSE hit.highlight[1]
      sourceData == IF hit._source = None THEN <<>> ELSE hit._source[1]
  IN TrimEnd(<<"Document ID: " \o hit._id, "Score: " \o ToString(hit._score), "">>
             \o HighlightLines(highlightedFields)
             \o SourceLines(sourceData, Keys(highlightedFields))
             \o <<"">>)

\* contentFragments of the search handler
SearchContent(queryBody, result) ==
  LET from == IF queryBody.from = None THEN 0 ELSE queryBody.from[1]
      hits == result.hits.hits
  IN <<Frag(<<"Total results: " \o ToString(TotalOf(result.hits.total))
              \o ", showing " \o ToString(Len(hits))
              \o " from position " \o ToString(from)>>)>>
     \o (IF result.aggregations # None
         THEN <<Frag(<<"Aggregations: " \o JSONstringify(result.aggregations[1])>>)>>
         ELSE <<>>)
     \o [k \in 1..Len(hits) |-> Frag(HitText(hits[k]))]

(***************************************************************************)
(* The arguments the tools are invoked with (values their schemas accept). *)
(***************************************************************************)
Indexes == {"a"}
Document == Obj("{\"x\":1}")
MatchAll == Obj("{\"match_all\":{}}")

QueryBodies ==
  [query : {MatchAll}, from : Opt({10}), index : Opt({"other"})]

QueryArgs(tool) ==
  IF tool = "update_by_query"
  THEN [index : Indexes, query : {MatchAll},
        script : [source : {"ctx._source.n++"}, params : {None}],
        conflicts : Opt({"proceed"}), maxDocs : Opt({10}), refresh : Opt(BOOLEAN)]
  ELSE [index : Indexes, query : {MatchAll},
        conflicts : Opt({"proceed"}), maxDocs : Opt({10}), refresh : Opt(BOOLEAN)]

\* every kind of logical bulk operation
OpKinds ==
  [action : {"index", "create", "update", "delete"}, index : Indexes,
   id : Opt({"", "d1"}), document : Opt({Document})]

\* the two kinds the long operation lists are made of
LongOpKinds ==
  {[action |-> "index", index |-> "a", id |-> None, document |-> Some(Document)],
   [action |-> "delete", index |-> "a", id |-> Some("d1"), document |-> None]}

\* operations: z.array(...).min(1)
OperationLists ==
  {ops \in SeqsUpTo(OpKinds, MaxOps) : Len(ops) >= 1}
  \cup {ops \in SeqsUpTo(LongOpKinds, MaxLong) : Len(ops) > MaxOps}

BulkArgs == [operations : OperationLists, pipeline : Opt({"ingest"})]

Args(tool) ==
  CASE tool = "list_indices" -> [indexPattern : {"logs-*"}]
    [] tool = "search" -> [index : Indexes, queryBody : QueryBodies]
    [] tool = "get_cluster_health" -> {<<>>}
    [] tool = "get_shards" -> [index : Opt(Indexes \cup {""})]
    [] tool = "add_document" ->
         [index : Indexes, id : Opt({"", "d1"}), document : {Document}]
    [] tool = "update_document" -> [index : Indexes, id : {"d1"}, document : {Document}]
    [] tool = "delete_document" -> [index : Indexes, id : {"d1"}]
    [] tool \in {"update_by_query", "delete_by_query"} -> QueryArgs(tool)
    [] tool = "bulk" -> BulkArgs
    [] tool = "create_index" ->
         [index : Indexes, settings : Opt({Obj("{\"number_of_shards\":1}")}),
          mappings : Opt({Obj("{\"properties\":{}}")})]
    [] tool = "count_documents" -> [index : Indexes, query : Opt({MatchAll})]
    [] tool \in {"get_templates", "get_aliases"} -> [name : Opt({"logs"})]
    [] OTHER -> [index : Indexes]

(***************************************************************************)
(* ElasticsearchService: the client call each method makes.                *)
(***************************************************************************)
\* AddDocumentParams making up an id when the caller gives none
AddDocumentParamsOwnId(args) ==
  [index |-> args.index, document |-> args.document,
   id |-> IF TruthyStr(args.id) THEN args.id ELSE Some("generated")]

\* const params = { index, document }; if (id) params.id = id;
AddDocumentParams(args) ==
  [index |-> args.index, document |-> args.document,
   id |-> IF TruthyStr(args.id) THEN args.id ELSE None]

StoreCall(tool, args) ==
  CASE tool = "list_indices" ->
         [method |-> "cat.indices",
          params |-> [index |-> args.indexPattern, format |-> "json",
                      h |-> "index,health,status,docs.count,store.size,pri,rep"]]
    [] tool = "get_mappings" ->
         [method |-> "indices.getMapping", params |-> [index |-> args.index]]
    [] tool = "search" ->
         [method |-> "search", params |-> SearchParams(args.index, args.queryBody)]
    [] tool = "get_cluster_health" -> [method |-> "cluster.health", params |-> <<>>]
    [] tool = "get_shards" ->
         [method |-> "cat.shards", params |-> [index |-> args.index, format |-> "json"]]
    [] tool = "add_document" ->
         [method |-> "index", params |-> AddDocumentParams(args)]
    [] tool = "update_document" ->
         [method |-> "update",
          params |-> [index |-> args.index, id |-> args.id, doc |-> args.document]]
    [] tool = "delete_document" ->
         [method |-> "delete", params |-> [index |-> args.index, id |-> args.id]]
    [] tool = "update_by_query" ->
         [method |-> "updateByQuery", params |-> QueryParams(tool, args)]
    [] tool = "delete_by_query" ->
         [method |-> "deleteByQuery", params |-> QueryParams(tool, args)]
    [] tool = "bulk" ->
         [method |-> "bulk",
          params |-> [refresh |-> TRUE, pipeline |-> args.pipeline,
                      operations |-> BuildBulkOperations(args.operations)]]
    [] tool = "create_index" ->
         [method |-> "indices.create",
          params |-> [index |-> args.index,
                      body |-> IF args.settings = None /\ args.mappings = None
                               THEN None
                               ELSE Some([settings |-> args.settings,
                                          mappings |-> args.mappings])]]
    [] tool = "delete_index" ->
         [method |-> "indices.delete", params |-> [index |-> args.index]]
    [] tool = "count_documents" ->
         [method |-> "count", params |-> [index |-> args.index, query |-> args.query]]
    [] tool = "get_templates" ->
         [method |-> "indices.getIndexTemplate", params |-> [name |-> args.name]]
    [] tool = "get_aliases" ->
         [method |-> "indices.getAlias", params |-> [name |-> args.name]]

(***************************************************************************)
(* What the store may answer.  None is the answer undefined.               *)
(***************************************************************************)
Rows == SeqsUpTo({Obj("{\"index\":\"a\"}")}, MaxHits)

FailureKinds ==
  [id : Opt({"", "d1"}), cause : Opt([reason : Opt({"conflict"})])]

LongFailureKinds ==
  {[id |-> Some("d1"), cause |-> Some([reason |-> Some("conflict")])],
   [id |-> None, cause |-> None]}

FailureLists ==
  SeqsUpTo(FailureKinds, MaxFailures)
  \cup {fs \in SeqsUpTo(LongFailureKinds, MaxLong) : Len(fs) > MaxFailures}

QueryResponses ==
  [took : {12}, total : {10}, updated : {6}, deleted : {7},
   failures : Opt(FailureLists), version_conflicts : Opt({0, 1})]

ItemOk ==
  "index" :> Some([_id |-> Some("d1"), _index |-> Some("a"), status |-> Some(201),
                   error |-> None, result |-> Some("created")])
ItemError ==
  "delete" :> Some([_id |-> Some("d2"), _index |-> Some("a"), status |-> Some(404),
                    error |-> Some([type |-> Some("document_missing_exception"),
                                    reason |-> Some("missing")]),
                    result |-> None])
ItemBareError ==
  "update" :> Some([_id |-> None, _index |-> None, status |-> None,
                    error |-> Some([type |-> None, reason |-> None]),
                    result |-> None])
ItemNoResult == "create" :> None
ItemEmpty == <<>>

ItemKinds == {ItemOk, ItemError, ItemBareError, ItemNoResult, ItemEmpty}
LongItemKinds == {ItemOk, ItemError}

\* the answers to a bulk call of n operations
BulkResponses(n) ==
  [took : {30}, errors : BOOLEAN,
   items : IF n <= MaxOps THEN SeqsUpTo(ItemKinds, MaxOps)
                          ELSE [1..n -> LongItemKinds]]

HitKinds ==
  {[_id |-> "h1", _score |-> 1, _source |-> None, highlight |-> None],
   [_id |-> "h2", _score |-> 2,
    _source |-> Some(<<[field |-> "title", value |-> Obj("\"t\"")],
                       [field |-> "body", value |-> Obj("\"b\"")]>>),
    highlight |-> Some(<<[field |-> "title", isArray |-> TRUE,
                          highlights |-> <<"<em>t</em>", "t2">>]>>)],
   [_id |-> "h3", _score |-> 3,
    _source |-> Some(<<[field |-> "title", value |-> Obj("\"t\"")]>>),
    highlight |-> Some(<<[field |-> "title", isArray |-> TRUE, highlights |-> <<>>]>>)]}

SearchResults ==
  [hits : [total : Opt({[kind |-> "number", n |-> 3],
                        [kind |-> "object", value |-> Some(4)]}),
           hits : SeqsUpTo(HitKinds, MaxHits)],
   aggregations : Opt({Obj("{\"by_tag\":{}}")})]

Returns(tool, args) ==
  Opt(CASE tool \in {"list_indices", "get_shards"} -> Rows
        [] tool = "get_mappings" ->
             {<<>>, args.index :> [mappings |-> None],
              args.index :> [mappings |-> Some(Obj("{\"properties\":{}}"))]}
        [] tool = "search" -> SearchResults
        [] tool = "add_document" -> [_id : Opt({"gen-1", " Zk2 "})]
        [] tool \in {"update_by_query", "delete_by_query"} -> QueryResponses
        [] tool = "bulk" -> BulkResponses(Len(args.operations))
        [] tool = "count_documents" -> [count : {0, 42}]
        [] OTHER -> {Obj("{\"acknowledged\":true}")})

(***************************************************************************)
(* The rest of each handler's try block, once the store has answered v.    *)
(***************************************************************************)
\* JSON.stringify of an array of objects
ArrayJSON(a) == "[" \o Join([k \in 1..Len(a) |-> JSONstringify(a[k])], ",") \o "]"

\* response.map((row) => ({ ... })): the object built from a cat row
Mapped(row) == Obj("{\"of\":" \o row.json \o "}")

OnReturn(tool, args, v) ==
  CASE tool = "list_indices" ->
         IF v = None THEN Catch(tool, TypeErrorOf("map"))
         ELSE Return(<<Frag(<<"Found " \o ToString(Len(v[1]))
                              \o " indices matching pattern '" \o args.indexPattern \o "'">>),
                       Frag(<<ArrayJSON([k \in 1..Len(v[1]) |-> Mapped(v[1][k])])>>)>>)
    [] tool = "get_mappings" ->
         IF v = None THEN Catch(tool, TypeErrorOf(args.index))
         ELSE LET mappings ==
                    IF args.index \in DOMAIN v[1] /\ v[1][args.index].mappings # None
                    THEN v[1][args.index].mappings[1] ELSE Obj("{}")
              IN Return(<<Frag(<<"Mappings for index: " \o args.index>>),
                          Frag(<<JSONstringify(mappings)>>)>>)
    [] tool = "search" ->
         IF v = None THEN Catch(tool, TypeErrorOf("hits"))
         ELSE Return(SearchContent(args.queryBody, v[1]))
    [] tool = "get_cluster_health" ->
         IF v = None THEN Catch(tool, TypeErrorOf("status"))
         ELSE Return(<<Frag(<<"Elasticsearch Cluster Health:">>),
                       Frag(<<JSONstringify(Mapped(v[1]))>>)>>)
    [] tool = "get_shards" ->
         IF v = None THEN Catch(tool, TypeErrorOf("map"))
         ELSE Return(<<Frag(<<"Found " \o ToString(Len(v[1])) \o " shards"
                              \o (IF TruthyStr(args.index)
                                  THEN " for index " \o args.index[1] ELSE "")>>),
                       Frag(<<ArrayJSON([k \in 1..Len(v[1]) |-> Mapped(v[1][k])])>>)>>)
    [] tool = "add_document" ->
         IF v = None THEN Catch(tool, TypeErrorOf("_id"))
         ELSE Return(<<Frag(<<"Document added to index '" \o args.index
                              \o "' with ID: " \o Interp(v[1]._id)>>)>>)
    [] tool = "update_document" ->
         Return(<<Frag(<<"Document with ID '" \o args.id \o "' updated in index '"
                         \o args.index \o "'.">>)>>)
    [] tool = "delete_document" ->
         Return(<<Frag(<<"Document with ID '" \o args.id \o "' deleted from index '"
                         \o args.index \o "'.">>)>>)
    [] tool = "update_by_query" ->
         IF v = None THEN Catch(tool, TypeErrorOf("total"))
         ELSE Return(<<Frag(UpdateByQueryReport(args, v[1]))>>)
    [] tool = "delete_by_query" ->
         IF v = None THEN Catch(tool, TypeErrorOf("total"))
         ELSE Return(<<Frag(DeleteByQueryReport(args, v[1]))>>)
    [] tool = "bulk" ->
         IF v = None THEN Catch(tool, TypeErrorOf("took"))
         ELSE [Return(<<Frag(BulkReport(args.operations, Summarize(v[1])))>>)
                 EXCEPT !.summary = Some(Summarize(v[1]))]
    [] tool = "create_index" ->
         Return(<<Frag(<<"Index '" \o args.index \o "' created successfully.">>)>>)
    [] tool = "delete_index" ->
         Return(<<Frag(<<"Index '" \o args.index \o "' deleted successfully.">>)>>)
    [] tool = "count_documents" ->
         IF v = None THEN Catch(tool, TypeErrorOf("count"))
         ELSE Return(<<Frag(<<"Count of documents in index '" \o args.index \o "'"
                              \o (IF args.query # None
                                  THEN " matching the provided query" ELSE "")
                              \o ": " \o ToString(v[1].count)>>)>>)
    [] tool = "get_templates" ->
         Return(<<Frag(<<"Index Templates:">>),
                  IF v = None THEN FragUndefined ELSE Frag(<<JSONstringify(v[1])>>)>>)
    [] tool = "get_aliases" ->
         Return(<<Frag(<<"Index Aliases:">>),
                  IF v = None THEN FragUndefined ELSE Frag(<<JSONstringify(v[1])>>)>>)

(***************************************************************************)
(* Startup: main and createOctodetElasticsearchMcpServer.                  *)
(***************************************************************************)
\* the issues of the ZodError that ConfigSchema.parse throws
ConfigIssues(c) ==
  (IF UrlOk(c) THEN <<>> ELSE <<"Elasticsearch URL cannot be empty">>)
  \o (IF AuthRefine(c) THEN <<>>
      ELSE <<"Either ES_API_KEY or both ES_USERNAME and ES_PASSWORD must be provided, or no auth for local development">>)

\* the tool invocations of a run
Invocations == {"i1", "i2"}

IdleInvocation ==
  [pc |-> "idle", tool |-> "", args |-> <<>>, calls |-> <<>>,
   outcome |-> None, summary |-> None, content |-> <<>>]

InitWith(configs) ==
  /\ phase = "start"
  /\ config \in configs
  /\ validatedConfig = None
  /\ client = None
  /\ tools = {}
  /\ stderr = <<>>
  /\ exitCode = None
  /\ inv = [i \in Invocations |-> IdleInvocation]

\* const validatedConfig = ConfigSchema.parse(config), or main's catch and exit(1)
ParseConfig ==
  /\ phase = "start"
  /\ IF ConfigAccepted(config)
     THEN /\ validatedConfig' = Some(ConfigParsed(config))
          /\ phase' = "validated"
          /\ UNCHANGED <<stderr, exitCode>>
     ELSE /\ phase' = "exited"
          /\ exitCode' = Some(1)
          /\ stderr' = Append(stderr, "Server error: " \o Join(ConfigIssues(config), "; "))
          /\ UNCHANGED validatedConfig
  /\ UNCHANGED <<config, client, tools, inv>>

\* const esService = new ElasticsearchService(validatedConfig)
CreateService ==
  /\ phase = "validated"
  /\ client' = Some(createClient(validatedConfig[1]))
  /\ phase' = "service"
  /\ UNCHANGED <<config, validatedConfig, tools, stderr, exitCode, inv>>

\* new McpServer(...) and the sixteen server.tool(...) registrations
RegisterTools ==
  /\ phase = "service"
  /\ tools' = ToolNames
  /\ phase' = "registered"
  /\ UNCHANGED <<config, validatedConfig, client, stderr, exitCode, inv>>

\* await server.connect(transport)
Connect ==
  /\ phase = "registered"
  /\ phase' = "connected"
  /\ stderr' = Append(stderr, "Octodet Elasticsearch MCP server running on stdio")
  /\ UNCHANGED <<config, validatedConfig, client, tools, exitCode, inv>>

(***************************************************************************)
(* Tool invocations.  A handler runs up to its StoreClient call, and from  *)
(* the call's outcome to its return, without yielding.                     *)
(***************************************************************************)
\* Finish keeping the summary in one place for all invocations
FinishSharedSummary(i, o, r) ==
  /\ inv' = [j \in Invocations |->
               IF j = i
               THEN [inv[j] EXCEPT !.pc = r.pc, !.outcome = o,
                                   !.summary = r.summary, !.content = r.content]
               ELSE [inv[j] EXCEPT !.summary = r.summary]]
  /\ stderr' = stderr \o r.logged
  /\ UNCHANGED <<phase, config, validatedConfig, client, tools, exitCode>>

\* a handler ends with result r after the outcome o of its call, if it made one
Finish(i, o, r) ==
  /\ inv' = [inv EXCEPT ![i].pc = r.pc, ![i].outcome = o,
                        ![i].summary = r.summary, ![i].content = r.content]
  /\ stderr' = stderr \o r.logged
  /\ UNCHANGED <<phase, config, validatedConfig, client, tools, exitCode>>

\* Call making the StoreClient call twice
CallTwice(i, tool, a) ==
  /\ phase = "connected"
  /\ tool \in tools
  /\ inv[i].pc = "idle"
  /\ inv' = [inv EXCEPT ![i] = [pc |-> "awaiting", tool |-> tool, args |-> a,
                                calls |-> <<StoreCall(tool, a), StoreCall(tool, a)>>,
                                outcome |-> None, summary |-> None,
                                content |-> <<>>]]
  /\ UNCHANGED <<phase, config, validatedConfig, client, tools, stderr, exitCode>>

\* the handler of tool starts with arguments a and awaits its StoreClient call
Call(i, tool, a) ==
  /\ phase = "connected"
  /\ tool \in tools
  /\ inv[i].pc = "idle"
  /\ inv' = [inv EXCEPT ![i] = [pc |-> "awaiting", tool |-> tool, args |-> a,
                                calls |-> <<StoreCall(tool, a)>>,
                                outcome |-> None, summary |-> None,
                                content |-> <<>>]]
  /\ UNCHANGED <<phase, config, validatedConfig, client, tools, stderr, exitCode>>

list_indices(i) ==
  inv[i].pc = "idle" /\ \E a \in Args("list_indices") : Call(i, "list_indices", a)
get_mappings(i) ==
  inv[i].pc = "idle" /\ \E a \in Args("get_mappings") : Call(i, "get_mappings", a)
search(i) ==
  inv[i].pc = "idle" /\ \E a \in Args("search") : Call(i, "search", a)
get_cluster_health(i) ==
  inv[i].pc = "idle" /\ \E a \in Args("get_cluster_health") : Call(i, "get_cluster_health", a)
get_shards(i) ==
  inv[i].pc = "idle" /\ \E a \in Args("get_shards") : Call(i, "get_shards", a)
add_document(i) ==
  inv[i].pc = "idle" /\ \E a \in Args("add_document") : Call(i, "add_document", a)
update_document(i) ==
  inv[i].pc = "idle" /\ \E a \in Args("update_document") : Call(i, "update_document", a)
delete_document(i) ==
  inv[i].pc = "idle" /\ \E a \in Args("delete_document") : Call(i, "delete_document", a)
update_by_query(i) ==
  inv[i].pc = "idle" /\ \E a \in Args("update_by_query") : Call(i, "update_by_query", a)
delete_by_query(i) ==
  inv[i].pc = "idle" /\ \E a \in Args("delete_by_query") : Call(i, "delete_by_query", a)
create_index(i) ==
  inv[i].pc = "idle" /\ \E a \in Args("create_index") : Call(i, "create_index", a)
delete_index(i) ==
  inv[i].pc = "idle" /\ \E a \in Args("delete_index") : Call(i, "delete_index", a)
count_documents(i) ==
  inv[i].pc = "idle" /\ \E a \in Args("count_documents") : Call(i, "count_documents", a)
get_templates(i) ==
  inv[i].pc = "idle" /\ \E a \in Args("get_templates") : Call(i, "get_templates", a)
get_aliases(i) ==
  inv[i].pc = "idle" /\ \E a \in Args("get_aliases") : Call(i, "get_aliases", a)

\* the bulk handler started with arguments a: the validation throws into the
\* catch block before any call
BulkHandler(i, a) ==
  LET invalid == ValidateOperations(a.operations)
  IN IF invalid # None
     THEN LET r == Catch("bulk", [kind |-> "Error", message |-> invalid[1]])
          IN /\ inv' = [inv EXCEPT ![i] = [pc |-> r.pc, tool |-> "bulk", args |-> a,
                                           calls |-> <<>>, outcome |-> None,
                                           summary |-> r.summary,
                                           content |-> r.content]]
             /\ stderr' = stderr \o r.logged
             /\ UNCHANGED <<phase, config, validatedConfig, client, tools, exitCode>>
     ELSE Call(i, "bulk", a)

bulk(i) ==
  /\ phase = "connected"
  /\ "bulk" \in tools
  /\ inv[i].pc = "idle"
  /\ \E a \in Args("bulk") : BulkHandler(i, a)

\* the awaited StoreClient call resolves
StoreReturns(i) ==
  /\ inv[i].pc = "awaiting"
  /\ \E v \in Returns(inv[i].tool, inv[i].args) :
       Finish(i, Some([kind |-> "return", value |-> v]),
              OnReturn(inv[i].tool, inv[i].args, v))

\* the awaited StoreClient call rejects
StoreThrows(i) ==
  /\ inv[i].pc = "awaiting"
  /\ \E e \in Thrown :
       Finish(i, Some([kind |-> "throw", error |-> e]), Catch(inv[i].tool, e))

Startup == ParseConfig \/ CreateService \/ RegisterTools \/ Connect

Invocation(i) ==
  \/ list_indices(i) \/ get_mappings(i) \/ search(i) \/ get_cluster_health(i)
  \/ get_shards(i) \/ add_document(i) \/ update_document(i) \/ delete_document(i)
  \/ update_by_query(i) \/ delete_by_query(i) \/ bulk(i) \/ create_index(i)
  \/ delete_index(i) \/ count_documents(i) \/ get_templates(i) \/ get_aliases(i)
  \/ StoreReturns(i) \/ StoreThrows(i)

\* the configurations the server is started with when the tools are exercised
ServingConfigs ==
  {[url |-> "http://localhost:9200", apiKey |-> None, username |-> None,
    password |-> None, pathPrefix |-> None, version |-> Some("8"),
    sslSkipVerify |-> Some(FALSE)],
   [url |-> "http://localhost:9200", apiKey |-> None, username |-> Some("elastic"),
    password |-> None, pathPrefix |-> None, version |-> Some("8"),
    sslSkipVerify |-> Some(FALSE)]}

Init == InitWith(ServingConfigs)

\* one tool invocation at a time
Next == Startup \/ Invocation("i1")

Spec == Init /\ [][Next]_vars

\* startup alone, from every configuration
InitConfig == InitWith(ElasticsearchConfig)

SpecConfig == InitConfig /\ [][Startup]_vars

(***************************************************************************)
(* Argument schemas.  server.tool(name, description, paramsSchema, handler) *)
(* registers the handler behind its schema: the server parses the raw      *)
(* arguments of an invocation with the schema and calls the handler, with  *)
(* the parsed value, only when the parse succeeds.                         *)
(***************************************************************************)
\* a required argument the caller left out
Missing == [missing |-> TRUE]

RawIndexes == {"a", " a", "", " "}

RawQueryArgs(tool) ==
  IF tool = "update_by_query"
  THEN [index : RawIndexes, query : {MatchAll},
        script : {Missing} \cup [source : {"ctx._source.n++", ""}, params : {None}],
        conflicts : Opt({"abort", "proceed", "skip"}), maxDocs : Opt({10, 0, -1}),
        refresh : Opt(BOOLEAN)]
  ELSE [index : RawIndexes, query : {MatchAll},
        conflicts : Opt({"abort", "proceed", "skip"}), maxDocs : Opt({10, 0, -1}),
        refresh : Opt(BOOLEAN)]

\* the empty list, and lists of one operation with any action and index
RawOperationLists ==
  {<<>>}
  \cup {<<op>> : op \in [action : {"index", "upsert"}, index : RawIndexes,
                         id : {None}, document : {Some(Document)}]}

\* the raw arguments a tool is invoked with: those of Args and others
RawArgs(tool) ==
  CASE tool = "list_indices" -> [indexPattern : {"logs-*", "", " "}]
    [] tool = "search" -> [index : RawIndexes, queryBody : QueryBodies]
    [] tool = "add_document" ->
         [index : RawIndexes, id : Opt({"", "d1"}), document : {Document}]
    [] tool = "update_document" ->
         [index : RawIndexes, id : {"d1", ""}, document : {Document}]
    [] tool = "delete_document" -> [index : RawIndexes, id : {"d1", ""}]
    [] tool \in {"update_by_query", "delete_by_query"} -> RawQueryArgs(tool)
    [] tool = "bulk" ->
         BulkArgs \cup [operations : RawOperationLists, pipeline : {None}]
    [] tool = "create_index" ->
         [index : RawIndexes, settings : Opt({Obj("{\"number_of_shards\":1}")}),
          mappings : Opt({Obj("{\"properties\":{}}")})]
    [] tool = "count_documents" -> [index : RawIndexes, query : Opt({MatchAll})]
    [] tool \in {"get_mappings", "delete_index"} -> [index : RawIndexes]
    [] OTHER -> Args(tool)

\* the tools whose schema has index: z.string().trim().min(1, ...)
IndexTools ==
  {"get_mappings", "search", "add_document", "update_document", "delete_document",
   "update_by_query", "delete_by_query", "create_index", "delete_index",
   "count_documents"}

\* z.string().trim().min(1)
NonBlank(s) == Trim(s) # ""

\* script: z.object({ source: z.string().min(1), params: ...optional() })
ScriptOk(a) == a.script # Missing /\ a.script.source # ""

\* conflicts: z.enum(["abort", "proceed"]).optional()
ConflictsOk(a) == a.conflicts = None \/ a.conflicts[1] \in {"abort", "proceed"}

\* MaxDocsOk without .positive()
MaxDocsAny(a) == TRUE

\* maxDocs: z.number().int().positive().optional(), on integers
MaxDocsOk(a) == a.maxDocs = None \/ a.maxDocs[1] > 0

\* operations: z.array(z.object({ action: z.enum([...]), index: ... })).min(1)
OperationsOk(a) ==
  /\ Len(a.operations) >= 1
  /\ \A k \in 1..Len(a.operations) :
       /\ a.operations[k].action \in {"index", "create", "update", "delete"}
       /\ NonBlank(a.operations[k].index)

\* the schema of the tool accepts the raw arguments
SchemaAccepts(tool, a) ==
  /\ tool \in IndexTools => NonBlank(a.index)
  /\ tool = "list_indices" => NonBlank(a.indexPattern)
  /\ tool \in {"update_document", "delete_document"} => a.id # ""
  /\ tool = "update_by_query" => ScriptOk(a)
  /\ tool \in {"update_by_query", "delete_by_query"} => ConflictsOk(a) /\ MaxDocsOk(a)
  /\ tool = "bulk" => OperationsOk(a)

\* the value the schema's parse returns: the strings under .trim() trimmed
SchemaParsed(tool, a) ==
  CASE tool \in IndexTools -> [a EXCEPT !.index = Trim(@)]
    [] tool = "list_indices" -> [a EXCEPT !.indexPattern = Trim(@)]
    [] tool = "bulk" ->
         [a EXCEPT !.operations =
            [k \in 1..Len(@) |-> [@[k] EXCEPT !.index = Trim(@)]]]
    [] OTHER -> a

\* the handler of the tool is called with the parsed arguments
Handler(i, tool, a) ==
  IF tool = "bulk" THEN BulkHandler(i, a) ELSE Call(i, tool, a)

\* the invocation ends at the schema: the handler is not called
Reject(i, tool, raw) ==
  /\ inv' = [inv EXCEPT ![i] = [pc |-> "rejected", tool |-> tool, args |-> raw,
                                calls |-> <<>>, outcome |-> None,
                                summary |-> None, content |-> <<>>]]
  /\ UNCHANGED <<phase, config, validatedConfig, client, tools, stderr, exitCode>>

\* an invocation of a registered tool arrives with raw arguments
Dispatch(i) ==
  /\ phase = "connected"
  /\ inv[i].pc = "idle"
  /\ \E tool \in tools :
       \E raw \in RawArgs(tool) :
         IF SchemaAccepts(tool, raw)
         THEN Handler(i, tool, SchemaParsed(tool, raw))
         ELSE Reject(i, tool, raw)

NextDispatch == Startup \/ Dispatch("i1")

\* startup and the arrival of one invocation with raw arguments
SpecDispatch == Init /\ [][NextDispatch]_vars

\* configurations of every url and every combination of credentials
AuthConfigs ==
  [url : Urls, apiKey : Opt({"key"}), username : Opt({"elastic"}),
   password : Opt({"secret"}), pathPrefix : {None}, version : {Some("8")},
   sslSkipVerify : {None}]

InitAuth == InitWith(AuthConfigs)

\* startup from every such configuration, and the arrival of one invocation
SpecStartup == InitAuth /\ [][NextDispatch]_vars

NextCalls == Startup \/ Dispatch("i1") \/ StoreReturns("i1") \/ StoreThrows("i1")

\* an invocation from its arrival with raw arguments to its envelope
SpecCalls == Init /\ [][NextCalls]_vars

\* the bulk tool alone: its invocation and the answer of the store
NextBulk == Startup \/ bulk("i1") \/ StoreReturns("i1") \/ StoreThrows("i1")

SpecBulk == Init /\ [][NextBulk]_vars

(***************************************************************************)
(* The transport of the client: CustomTransport when a path prefix is      *)
(* configured, the client library's Transport otherwise.                   *)
(***************************************************************************)
PathPrefixes == {"", "/es", "/es/", "es"}

\* the request parameters the client hands to its transport
TransportRequestParams ==
  [method : {"GET", "POST"},
   path : {"", "/", "/_bulk", "_cat/indices", "/a/_search"},
   querystring : Opt({"format=json"}),
   body : Opt({MatchAll})]

\* CustomTransportRequest putting a "/" between the prefix and the path
CustomTransportRequestJoined(pathPrefix, params) ==
  [params EXCEPT !.path = pathPrefix \o "/" \o @]

\* const newParams = { ...params, path: this.pathPrefix + params.path }
CustomTransportRequest(pathPrefix, params) ==
  [params EXCEPT !.path = pathPrefix \o @]

\* the parameters that reach Transport.request of the client library
Outgoing(c, params) ==
  IF c.pathPrefix # None THEN CustomTransportRequest(c.pathPrefix[1], params)
  ELSE params

\* the client sends a request through its transport
request(i) ==
  /\ phase = "connected"
  /\ inv[i].pc = "idle"
  /\ \E params \in TransportRequestParams :
       inv' = [inv EXCEPT ![i] = [pc |-> "awaiting", tool |-> "request",
                                  args |-> params,
                                  calls |-> <<Outgoing(client[1], params)>>,
                                  outcome |-> None, summary |-> None,
                                  content |-> <<>>]]
  /\ UNCHANGED <<phase, config, validatedConfig, client, tools, stderr, exitCode>>

PrefixConfigs ==
  [url : {"http://localhost:9200"}, apiKey : {None}, username : {None},
   password : {None}, pathPrefix : Opt(PathPrefixes), version : {Some("8")},
   sslSkipVerify : {None}]

InitPrefix == InitWith(PrefixConfigs)

NextTransport == Startup \/ request("i1")

\* startup with and without a path prefix, and one request of the client
SpecTransport == InitPrefix /\ [][NextTransport]_vars

(***************************************************************************)
(* Concurrent bulk invocations.  A handler is an async function: it runs   *)
(* to its await of the StoreClient call and from the call's outcome to its *)
(* return without yielding, and other invocations run in between.          *)
(***************************************************************************)
\* longest operation list of the concurrent bulk invocations
MaxConcurrentOps == 2

ConcurrentOpKinds ==
  LongOpKinds
  \cup {[action |-> "delete", index |-> "a", id |-> None, document |-> None]}

ConcurrentOperationLists ==
  {ops \in SeqsUpTo(ConcurrentOpKinds, MaxConcurrentOps) : Len(ops) >= 1}

\* the answers to a concurrent bulk call of n operations
ConcurrentResponses(n) ==
  [took : {30}, errors : {TRUE}, items : [1..n -> LongItemKinds]]

bulkConcurrent(i) ==
  /\ phase = "connected"
  /\ "bulk" \in tools
  /\ inv[i].pc = "idle"
  /\ \E ops \in ConcurrentOperationLists :
       BulkHandler(i, [operations |-> ops, pipeline |-> None])

StoreReturnsConcurrent(i) ==
  /\ inv[i].pc = "awaiting"
  /\ \E v \in ConcurrentResponses(Len(inv[i].args.operations)) :
       Finish(i, Some([kind |-> "return", value |-> Some(v)]),
              OnReturn("bulk", inv[i].args, Some(v)))

ConcurrentInvocation(i) ==
  bulkConcurrent(i) \/ StoreReturnsConcurrent(i) \/ StoreThrows(i)

NextConcurrent ==
  Startup \/ ConcurrentInvocation("i1") \/ ConcurrentInvocation("i2")

\* two bulk invocations, interleaved at their StoreClient calls
SpecConcurrent == Init /\ [][NextConcurrent]_vars

(***************************************************************************)
(* The properties checked.                                                 *)
(***************************************************************************)
Returned(i) == inv[i].pc = "returned"

\* the StoreClient call of invocation i threw
Threw(i) == inv[i].outcome # None /\ inv[i].outcome[1].kind = "throw"

\* the StoreClient call of invocation i returned a value other than undefined
Answered(i) ==
  /\ inv[i].outcome # None
  /\ inv[i].outcome[1].kind = "return"
  /\ inv[i].outcome[1].value # None

\* the value it returned
Answer(i) == inv[i].outcome[1].value[1]

\* C1, as claimed: every handler whose StoreClient call throws an Error with
\* message m returns an envelope whose first fragment is exactly "Error: " m.
C1_AsClaimed ==
  \A i \in Invocations :
    (Returned(i) /\ Threw(i) /\ inv[i].outcome[1].error.kind = "Error")
    => inv[i].content[1].text = <<"Error: " \o inv[i].outcome[1].error.message>>

\* C1, amended: when the StoreClient call throws, the envelope is one fragment,
\* "Error: " m for the thirteen tools other than add_document, update_document
\* and delete_document, and "Error adding document: " m, "Error updating
\* document: " m, "Error deleting document: " m for these three, m being the
\* message of a thrown Error and String(value) of any other thrown value.
C1_ErrorEnvelope ==
  \A i \in Invocations :
    (Returned(i) /\ Threw(i))
    => LET e == inv[i].outcome[1].error
           m == IF e.kind = "Error" THEN e.message ELSE ToString(e.value)
           prefix == CASE inv[i].tool = "add_document" -> "Error adding document: "
                       [] inv[i].tool = "update_document" -> "Error updating document: "
                       [] inv[i].tool = "delete_document" -> "Error deleting document: "
                       [] OTHER -> "Error: "
       IN inv[i].content = <<[type |-> "text", text |-> <<prefix \o m>>]>>

\* update_document has returned after its StoreClient call threw an Error
C1_Witness ==
  \E i \in Invocations :
    /\ Returned(i) /\ Threw(i)
    /\ inv[i].tool = "update_document"
    /\ inv[i].outcome[1].error.kind = "Error"

\* C2, as claimed: with apiKey absent and a non-empty url, validation accepts
\* exactly when username and password are both present or both absent; with
\* an apiKey it accepts.
C2_AsClaimed ==
  (phase # "start" /\ Trim(config.url) # "")
  => LET accepted == phase # "exited"
     IN IF config.apiKey # None THEN accepted
        ELSE accepted <=> ((config.username # None) <=> (config.password # None))

\* bulk invocation i has returned after the store answered its call
BulkAnswered(i) == inv[i].tool = "bulk" /\ Returned(i) /\ Answered(i)

\* the item carries a result object under its first key
HasResult(item) ==
  DOMAIN item # {} /\ \A k \in DOMAIN item : item[k] # None

\* the item's result carries an error marker
HasError(item) ==
  HasResult(item) /\ \A k \in DOMAIN item : item[k][1].error # None

\* C3, as claimed: for any answer with as many items as operations, the
\* summary holds one record per operation, in input order, and successes +
\* failures is the number of operations.
C3_AsClaimed ==
  \A i \in Invocations :
    (BulkAnswered(i) /\ Len(Answer(i).items) = Len(inv[i].args.operations))
    => LET summary == inv[i].summary[1]
           n == Len(inv[i].args.operations)
       IN /\ Len(summary.actionResults) = n
          /\ \A k \in 1..Len(summary.actionResults) :
               summary.actionResults[k].operation = k - 1
          /\ summary.successes + summary.failures = n

\* C3, amended: for any answer with as many items as operations, every item
\* of which carries a result object under its first key, the summary holds
\* one record per operation, in input order, and successes + failures is the
\* number of operations, the "Total operations" figure of the report.
C3_Summary ==
  \A i \in Invocations :
    (/\ BulkAnswered(i)
     /\ Len(Answer(i).items) = Len(inv[i].args.operations)
     /\ \A k \in 1..Len(Answer(i).items) : HasResult(Answer(i).items[k]))
    => LET summary == inv[i].summary[1]
           n == Len(inv[i].args.operations)
       IN /\ Len(summary.actionResults) = n
          /\ \A k \in 1..n :
               /\ summary.actionResults[k].operation = k - 1
               /\ DOMAIN Answer(i).items[k] = {summary.actionResults[k].action}
          /\ summary.successes + summary.failures = n
          /\ inv[i].content[1].text[2]
               = "- Total operations: " \o ToString(summary.successes + summary.failures)

\* a bulk call of three operations or more answered with successes and failures
C3_Witness ==
  \E i \in Invocations :
    /\ BulkAnswered(i)
    /\ Len(inv[i].args.operations) >= 3
    /\ Len(Answer(i).items) = Len(inv[i].args.operations)
    /\ \A k \in 1..Len(Answer(i).items) : HasResult(Answer(i).items[k])
    /\ inv[i].summary[1].successes > 0
    /\ inv[i].summary[1].failures > 0

\* the number of wire entries of an operation
EntryCount(op) == IF op.action = "delete" THEN 1 ELSE 2

RECURSIVE Offset(_, _)
\* the number of wire entries of the operations before position k
Offset(ops, k) == IF k = 1 THEN 0 ELSE Offset(ops, k - 1) + EntryCount(ops[k - 1])

\* C4: the wire sequence of a valid operation list has 2 * (non-delete
\* operations) + (delete operations) entries, and the action entry of the
\* operation at position k sits right after the entries of the operations
\* before it, followed by its payload entry unless it is a delete.
C4_WireLayout ==
  \A i \in Invocations :
    (inv[i].tool = "bulk" /\ inv[i].calls # <<>>)
    => LET ops == inv[i].args.operations
           wire == inv[i].calls[1].params.operations
           deletes == {k \in 1..Len(ops) : ops[k].action = "delete"}
       IN /\ Len(wire) = 2 * (Len(ops) - Cardinality(deletes)) + Cardinality(deletes)
          /\ \A k \in 1..Len(ops) :
               /\ Offset(ops, k) + EntryCount(ops[k]) <= Len(wire)
               /\ DOMAIN wire[Offset(ops, k) + 1] = {ops[k].action}
               /\ k \notin deletes
                  => DOMAIN wire[Offset(ops, k) + 2] \in {{"json"}, {"doc"}}

\* a bulk call was made for a list with a delete before an update
C4_Witness ==
  \E i \in Invocations :
    /\ inv[i].tool = "bulk" /\ inv[i].calls # <<>>
    /\ Len(inv[i].args.operations) >= 2
    /\ inv[i].args.operations[1].action = "delete"
    /\ inv[i].args.operations[2].action = "update"

\* the operation violates the action/field rule
BreaksRule(op) ==
  \/ op.action \in {"update", "delete"} /\ op.id = None
  \/ op.action \in {"index", "create", "update"} /\ op.document = None

ValidationMessages ==
  {"Operation #" \o ToString(k) \o " (" \o a \o "): " \o what :
     k \in 1..(MaxLong + 1), a \in {"index", "create", "update", "delete"},
     what \in {"Document ID is required", "Document body is required"}}

\* C5: a bulk call with an operation that violates the action/field rule
\* makes no StoreClient call and returns an error envelope; a delete without
\* id at position 1 is reported as operation #1, delete, Document ID is required.
C5_RejectedBeforeStore ==
  \A i \in Invocations :
    (/\ inv[i].tool = "bulk"
     /\ \E k \in 1..Len(inv[i].args.operations) : BreaksRule(inv[i].args.operations[k]))
    => /\ inv[i].calls = <<>>
       /\ inv[i].outcome = None
       /\ Returned(i)
       /\ Len(inv[i].content) = 1
       /\ \E m \in ValidationMessages : inv[i].content[1].text = <<"Error: " \o m>>
       /\ (inv[i].args.operations[1].action = "delete"
           /\ inv[i].args.operations[1].id = None)
          => inv[i].content[1].text
               = <<"Error: Operation #1 (delete): Document ID is required">>

\* a bulk list whose first operation is valid and whose second is not was rejected
C5_Witness ==
  \E i \in Invocations :
    /\ inv[i].tool = "bulk" /\ Returned(i)
    /\ Len(inv[i].args.operations) = 2
    /\ ~BreaksRule(inv[i].args.operations[1])
    /\ inv[i].args.operations[1].id # Some("")
    /\ BreaksRule(inv[i].args.operations[2])

\* the handler finds no id: it is absent or the empty string
LacksId(op) == op.action \in {"update", "delete"} /\ op.id \in {None, Some("")}
LacksBody(op) == op.action \in {"index", "create", "update"} /\ op.document = None

\* C6: the validation error names the invalid operation of lowest position,
\* by its 1-based position and its action, and the missing field: the id when
\* an update or delete lacks it, otherwise the document body.
C6_FirstInvalidNamed ==
  \A i \in Invocations :
    (inv[i].tool = "bulk" /\ Returned(i) /\ inv[i].calls = <<>>)
    => LET ops == inv[i].args.operations
           invalid == {k \in 1..Len(ops) : LacksId(ops[k]) \/ LacksBody(ops[k])}
           first == CHOOSE k \in invalid : \A j \in invalid : k <= j
       IN /\ invalid # {}
          /\ inv[i].content[1].text
               = <<"Error: Operation #" \o ToString(first) \o " (" \o ops[first].action
                   \o "): " \o (IF LacksId(ops[first]) THEN "Document ID is required"
                                ELSE "Document body is required")>>

\* a rejected list: a valid operation, then an update lacking id and body
C6_Witness ==
  \E i \in Invocations :
    /\ inv[i].tool = "bulk" /\ Returned(i) /\ inv[i].calls = <<>>
    /\ Len(inv[i].args.operations) = 2
    /\ ~LacksId(inv[i].args.operations[1]) /\ ~LacksBody(inv[i].args.operations[1])
    /\ inv[i].args.operations[2].action = "update"
    /\ inv[i].args.operations[2].id = None
    /\ inv[i].args.operations[2].document = None

ReportTools == {"bulk", "update_by_query", "delete_by_query"}

\* the number of failures the store's answer to invocation i carries
FailuresAnswered(i) ==
  IF inv[i].tool = "bulk"
  THEN Cardinality({k \in 1..Len(Answer(i).items) : HasError(Answer(i).items[k])})
  ELSE IF Answer(i).failures = None THEN 0 ELSE Len(Answer(i).failures[1])

OverflowLines ==
  {"...and " \o ToString(k) \o " more failures." : k \in 0..(MaxLong + 1)}

NonEmpty(line) == line # ""

\* the lines of a report that follow its "Failures:" line, the empty ones left out
Listed(lines) ==
  LET p == CHOOSE k \in 1..Len(lines) : lines[k] = "Failures:"
  IN SelectSeq(SubSeq(lines, p + 1, Len(lines)), NonEmpty)

\* C7: a report lists 5 failure lines and one overflow line stating n - 5
\* when the n failures are more than 5, n failure lines and no overflow line
\* when n is between 1 and 5, and no failure section when n is 0.
C7_Truncation ==
  \A i \in Invocations :
    (inv[i].tool \in ReportTools /\ Returned(i) /\ Answered(i))
    => LET n == FailuresAnswered(i)
           lines == inv[i].content[1].text
           marks == {k \in 1..Len(lines) : lines[k] = "Failures:"}
       IN IF n = 0
          THEN marks = {} /\ \A k \in 1..Len(lines) : lines[k] \notin OverflowLines
          ELSE /\ Cardinality(marks) = 1
               /\ Len(Listed(lines)) = IF n > 5 THEN 6 ELSE n
               /\ \A k \in 1..(IF n > 5 THEN 5 ELSE n) :
                    Listed(lines)[k] \notin OverflowLines
               /\ n > 5 => Listed(lines)[6]
                             = "...and " \o ToString(n - 5) \o " more failures."

\* delete_by_query has reported an answer with more than 5 failures
C7_Witness ==
  \E i \in Invocations :
    /\ inv[i].tool = "delete_by_query" /\ Returned(i) /\ Answered(i)
    /\ FailuresAnswered(i) > 5

\* C8, as claimed: in both query mutation reports the line of the k-th listed
\* failure is "k. ID: <id>, Reason: <reason>", <id> being "unknown" when the
\* failure has no id and <reason> "Unknown" when it has no cause.reason.
C8_AsClaimed ==
  \A i \in Invocations :
    (/\ inv[i].tool \in {"update_by_query", "delete_by_query"}
     /\ Returned(i) /\ Answered(i) /\ FailuresAnswered(i) > 0)
    => LET fs == Answer(i).failures[1]
           lines == Listed(inv[i].content[1].text)
       IN \A k \in 1..(IF Len(fs) > 5 THEN 5 ELSE Len(fs)) :
            fs[k].id # Some("")
            => lines[k]
                 = ToString(k) \o ". ID: "
                   \o (IF fs[k].id = None THEN "unknown" ELSE fs[k].id[1])
                   \o ", Reason: "
                   \o (IF fs[k].cause = None \/ fs[k].cause[1].reason = None
                       THEN "Unknown" ELSE fs[k].cause[1].reason[1])

StartupLine == "Octodet Elasticsearch MCP server running on stdio"

\* C9, as claimed: whenever a StoreClient call fails inside a handler, the
\* failure is written to console.error besides being returned in the envelope.
C9_AsClaimed ==
  \A i \in Invocations :
    (Returned(i) /\ Threw(i))
    => \E k \in 1..Len(stderr) : stderr[k] # StartupLine

\* C10: no handler lets an exception escape: whatever the store returns or
\* throws, the handler has returned, once the outcome is there, an envelope
\* whose content is a non-empty sequence of fragments of type "text".
C10_NoEscape ==
  \A i \in Invocations :
    /\ inv[i].pc \in {"idle", "awaiting", "returned"}
    /\ inv[i].outcome # None => Returned(i)
    /\ Returned(i)
       => /\ Len(inv[i].content) >= 1
          /\ \A k \in 1..Len(inv[i].content) : inv[i].content[k].type = "text"

\* the search handler has returned after the store answered undefined
C10_Witness ==
  \E i \in Invocations :
    /\ inv[i].tool = "search" /\ Returned(i)
    /\ inv[i].outcome = Some([kind |-> "return", value |-> None])

QueryTools == {"update_by_query", "delete_by_query"}

\* query mutation invocation i has made its StoreClient call
QueryCalled(i) == inv[i].tool \in QueryTools /\ inv[i].calls # <<>>

C12_AsClaimed ==
  \A i \in Invocations :
    (QueryCalled(i) /\ inv[i].args.refresh = None)
    => inv[i].calls[1].params.refresh = FALSE

\* C13, as claimed: for every accepted configuration exactly one auth mode
\* holds (apiKey present; username and password both present; none of the
\* three present), and no accepted configuration carries an apiKey together
\* with a username or a password.
C13_AsClaimed ==
  validatedConfig # None
  => LET c == validatedConfig[1]
         modes == {m \in {"apiKey", "basic", "none"} :
                     \/ m = "apiKey" /\ c.apiKey # None
                     \/ m = "basic" /\ c.username # None /\ c.password # None
                     \/ m = "none" /\ c.apiKey = None /\ c.username = None
                                   /\ c.password = None}
     IN /\ Cardinality(modes) = 1
        /\ ~(c.apiKey # None /\ (c.username # None \/ c.password # None))

\* the number of items of the answer that carry a result without error marker
SuccessesAnswered(i) ==
  Cardinality({k \in 1..Len(Answer(i).items) :
                 HasResult(Answer(i).items[k]) /\ ~HasError(Answer(i).items[k])})

\* C14: a bulk call whose answer contains failed items returns one fragment
\* that starts with the "Bulk operation completed" line and states the
\* success and failure counts, not an "Error:" text; update_by_query and
\* delete_by_query whose answer carries a non-empty failures list return
\* their "completed successfully" report with the failure count.
C14_PartialFailureIsSuccess ==
  \A i \in Invocations :
    (/\ inv[i].tool \in ReportTools
     /\ Returned(i) /\ Answered(i) /\ FailuresAnswered(i) > 0)
    => LET lines == inv[i].content[1].text
           n == ToString(FailuresAnswered(i))
       IN /\ Len(inv[i].content) = 1
          /\ inv[i].content[1].type = "text"
          /\ CASE inv[i].tool = "bulk" ->
                    /\ lines[1] = "Bulk operation completed in "
                                  \o ToString(Answer(i).took) \o "ms"
                    /\ lines[3] = "- Successful: " \o ToString(SuccessesAnswered(i))
                    /\ lines[4] = "- Failed: " \o n
               [] inv[i].tool = "update_by_query" ->
                    /\ lines[1] = "Update by query completed successfully in index '"
                                  \o inv[i].args.index \o "':"
                    /\ lines[4] = "- Documents that failed: " \o n
               [] inv[i].tool = "delete_by_query" ->
                    /\ lines[1] = "Delete by query completed successfully in index '"
                                  \o inv[i].args.index \o "':"
                    /\ lines[4] = "- Deletion failures: " \o n

\* a bulk call of two operations was answered with two failed items
C14_Witness ==
  \E i \in Invocations :
    /\ BulkAnswered(i)
    /\ Len(inv[i].args.operations) = 2
    /\ FailuresAnswered(i) = 2

\* C15, as claimed: the content of an answered bulk call states the elapsed
\* time, the success count and the failure count, and it carries the store's
\* errors flag: it is not the content the handler gives to the same answer
\* with the opposite errors flag.
C15_AsClaimed ==
  \A i \in Invocations :
    BulkAnswered(i)
    => LET lines == inv[i].content[1].text
           flipped == [Answer(i) EXCEPT !.errors = ~@]
       IN /\ lines[1] = "Bulk operation completed in "
                        \o ToString(Answer(i).took) \o "ms"
          /\ lines[3] = "- Successful: " \o ToString(SuccessesAnswered(i))
          /\ lines[4] = "- Failed: " \o ToString(FailuresAnswered(i))
          /\ inv[i].content
               # OnReturn("bulk", inv[i].args, Some(flipped)).content

\* the arguments fail the tool's schema in one of the ways the claim lists
BreaksSchema(tool, a) ==
  \/ tool = "update_by_query" /\ a.script = [missing |-> TRUE]
  \/ tool = "bulk" /\ a.operations = <<>>
  \/ tool \in QueryTools /\ a.maxDocs # None /\ a.maxDocs[1] <= 0
  \/ tool \in QueryTools /\ a.conflicts \notin {None, Some("abort"), Some("proceed")}
  \/ tool \in ToolNames \ {"list_indices", "get_cluster_health", "get_shards", "bulk",
                           "get_templates", "get_aliases"}
     /\ a.index \in {"", " "}

C17_WirePayloads ==
  \A i \in Invocations :
    (inv[i].tool = "bulk" /\ inv[i].calls # <<>>)
    => LET ops == inv[i].args.operations
           wire == inv[i].calls[1].params.operations
       IN \A k \in 1..Len(ops) :
            LET op == ops[k]
                at == Offset(ops, k)
                last == IF k = Len(ops) THEN Len(wire) ELSE Offset(ops, k + 1)
            IN /\ DOMAIN wire[at + 1] = {op.action}
               /\ wire[at + 1][op.action]._index = op.index
               /\ wire[at + 1][op.action]._id
                    = (IF op.id \in {None, Some("")} THEN None ELSE op.id)
               /\ CASE op.action = "delete" -> last = at + 1
                    [] op.action \in {"index", "create"} ->
                         last = at + 2 /\ wire[at + 2] = op.document[1]
                    [] op.action = "update" ->
                         last = at + 2 /\ wire[at + 2] = [doc |-> op.document[1]]

\* a bulk call was made for an index operation with an empty id and an update
C17_Witness ==
  \E i \in Invocations :
    /\ inv[i].tool = "bulk" /\ inv[i].calls # <<>>
    /\ Len(inv[i].args.operations) = 2
    /\ inv[i].args.operations[1].action = "index"
    /\ inv[i].args.operations[1].id = Some("")
    /\ inv[i].args.operations[2].action = "update"

ConflictLines == {"- Version conflicts: " \o ToString(n) : n \in 0..2}

\* C18: the delete_by_query report of an answer {took, total, deleted,
\* failures?, version_conflicts?} states processed = total, deleted = deleted,
\* failures = the length of failures (0 when absent) and elapsed = took; it has
\* a version-conflicts line, with the count, exactly when version_conflicts
\* is above 0; and its failure lines are numbered from 1 in the order of the
\* failures list.
C18_DeleteReport ==
  \A i \in Invocations :
    (inv[i].tool = "delete_by_query" /\ Returned(i) /\ Answered(i))
    => LET r == Answer(i)
           lines == inv[i].content[1].text
           fs == IF r.failures = None THEN <<>> ELSE r.failures[1]
           conflicts == {k \in 1..Len(lines) : lines[k] \in ConflictLines}
       IN /\ lines[2] = "- Total documents processed: " \o ToString(r.total)
          /\ lines[3] = "- Documents deleted: " \o ToString(r.deleted)
          /\ lines[4] = "- Deletion failures: " \o ToString(Len(fs))
          /\ lines[5] = "- Time taken: " \o ToString(r.took) \o "ms"
          /\ IF r.version_conflicts # None /\ r.version_conflicts[1] > 0
             THEN /\ conflicts = {6}
                  /\ lines[6] = "- Version conflicts: "
                                \o ToString(r.version_conflicts[1])
             ELSE conflicts = {}
          /\ Len(fs) > 0
             => \A k \in 1..(IF Len(fs) > 5 THEN 5 ELSE Len(fs)) :
                  Listed(lines)[k]
                    = ToString(k) \o ". ID: "
                      \o (IF fs[k].id \in {None, Some("")} THEN "unknown"
                          ELSE fs[k].id[1])
                      \o ", Reason: "
                      \o (IF fs[k].cause = None \/ fs[k].cause[1].reason = None
                          THEN "Unknown" ELSE fs[k].cause[1].reason[1])

\* delete_by_query answered {took: 12, total: 10, deleted: 7,
\* failures: [{id: "d1", cause: {reason: "conflict"}}], version_conflicts: 1}
C18_Witness ==
  \E i \in Invocations :
    /\ inv[i].tool = "delete_by_query" /\ Returned(i) /\ Answered(i)
    /\ Answer(i).took = 12 /\ Answer(i).total = 10 /\ Answer(i).deleted = 7
    /\ Answer(i).failures
         = Some(<<[id |-> Some("d1"), cause |-> Some([reason |-> Some("conflict")])]>>)
    /\ Answer(i).version_conflicts = Some(1)
    /\ inv[i].content[1].text
         = <<"Delete by query completed successfully in index 'a':",
             "- Total documents processed: 10", "- Documents deleted: 7",
             "- Deletion failures: 1", "- Time taken: 12ms",
             "- Version conflicts: 1", "", "Failures:",
             "1. ID: d1, Reason: conflict">>

\* C19: in update_by_query and delete_by_query the wire parameters hold
\* conflicts and max_docs with the caller's conflicts and maxDocs, unchanged,
\* when the caller gives them, and neither key when the caller omits them.
C19_OptionalPassThrough ==
  \A i \in Invocations :
    QueryCalled(i)
    => LET given == inv[i].args
           sent == inv[i].calls[1].params
       IN /\ given.conflicts # None => sent.conflicts = given.conflicts
          /\ given.conflicts = None => sent.conflicts = None
          /\ given.maxDocs # None => sent.max_docs = given.maxDocs
          /\ given.maxDocs = None => sent.max_docs = None

\* delete_by_query has made its call with conflicts "abort" and without maxDocs
C19_Witness ==
  \E i \in Invocations :
    /\ QueryCalled(i) /\ inv[i].tool = "delete_by_query"
    /\ inv[i].args.conflicts = Some("abort")
    /\ inv[i].args.maxDocs = None

\* C20: add_document called without an id sends the store an index request
\* with no id field, and when the store answers with an _id its envelope is
\* one fragment that reports that _id as it is.
C20_StoreAssignedId ==
  \A i \in Invocations :
    (inv[i].tool = "add_document" /\ inv[i].args.id = None)
    => /\ inv[i].calls # <<>>
       /\ inv[i].calls[1].method = "index"
       /\ inv[i].calls[1].params
            = [index |-> inv[i].args.index, document |-> inv[i].args.document,
               id |-> None]
       /\ (Returned(i) /\ Answered(i) /\ Answer(i)._id # None)
          => inv[i].content
               = <<[type |-> "text",
                    text |-> <<"Document added to index '" \o inv[i].args.index
                               \o "' with ID: " \o Answer(i)._id[1]>>]>>

\* add_document {index: "a", document: {"x": 1}} was answered with an _id
C20_Witness ==
  \E i \in Invocations :
    /\ inv[i].tool = "add_document" /\ inv[i].args.id = None
    /\ inv[i].args.index = "a" /\ inv[i].args.document = Document
    /\ Returned(i) /\ Answered(i)
    /\ Answer(i)._id = Some(" Zk2 ")

\* the configuration fails validation as the claim lists: an empty or
\* whitespace-only url, or a username without password and without apiKey
FailsValidation(c) ==
  \/ c.url \in {"", " "}
  \/ c.apiKey = None /\ c.username # None /\ c.password = None

\* C21: the configuration is validated before the client is created, the
\* client is created before a tool is registered, the tools are registered
\* before the server connects, and an invocation is dispatched only once the
\* server is connected; when validation fails there is no client, no tool
\* and no invocation, and the process exits with code 1.
C21_StartupOrder ==
  /\ client # None => validatedConfig # None
  /\ tools # {} => client # None
  /\ phase = "connected" => tools = ToolNames
  /\ \A i \in Invocations : inv[i].pc # "idle" => phase = "connected"
  /\ exitCode # None => phase = "exited"
  /\ (FailsValidation(config) /\ phase # "start")
     => /\ phase = "exited"
        /\ exitCode = Some(1)
        /\ validatedConfig = None /\ client = None /\ tools = {}
        /\ \A i \in Invocations : inv[i].pc = "idle"

\* the process has exited on a whitespace-only url
C21_Witness ==
  /\ phase = "exited" /\ exitCode = Some(1)
  /\ config.url = " "
  /\ config.username = None

\* C22: with a path prefix configured, the path of an outgoing request is the
\* prefix followed by the original path, nothing added, removed or
\* normalized between them, and the other parameters are those of the
\* original request; without a prefix the request is the original one.
C22_PathPrefix ==
  \A i \in Invocations :
    (inv[i].tool = "request" /\ inv[i].calls # <<>>)
    => LET given == inv[i].args
           sent == inv[i].calls[1]
       IN /\ sent.method = given.method
          /\ sent.querystring = given.querystring
          /\ sent.body = given.body
          /\ config.pathPrefix = None => sent.path = given.path
          /\ config.pathPrefix # None
             => sent.path = config.pathPrefix[1] \o given.path
          /\ (config.pathPrefix = Some("/es/") /\ given.path = "/_bulk")
             => sent.path = "/es//_bulk"
          /\ (config.pathPrefix = Some("es") /\ given.path = "_cat/indices")
             => sent.path = "es_cat/indices"
          /\ (config.pathPrefix = Some("") /\ given.path = "/a/_search")
             => sent.path = "/a/_search"

\* a request for "/_bulk" was sent with the prefix "/es/"
C22_Witness ==
  \E i \in Invocations :
    /\ inv[i].tool = "request" /\ inv[i].calls # <<>>
    /\ config.pathPrefix = Some("/es/")
    /\ inv[i].args.path = "/_bulk"
    /\ inv[i].args.querystring # None

\* the positions of the failed items of the answer to invocation i, in order
RECURSIVE FailedPositions(_, _)
FailedPositions(items, k) ==
  IF k > Len(items) THEN <<>>
  ELSE (IF HasError(items[k]) THEN <<k>> ELSE <<>>) \o FailedPositions(items, k + 1)

\* C23: under every interleaving of bulk invocations that yield only at
\* their StoreClient call, an invocation has a summary only once its own call
\* was answered, and its summary and report (total, success count, failure
\* count, failure lines) are those of its own operation list and its own
\* answer, whatever the other invocation does.
C23_Isolation ==
  \A i \in Invocations :
    /\ inv[i].summary # None => BulkAnswered(i)
    /\ BulkAnswered(i)
       => LET lines == inv[i].content[1].text
              items == Answer(i).items
              failed == FailedPositions(items, 1)
          IN /\ inv[i].summary[1].successes = SuccessesAnswered(i)
             /\ inv[i].summary[1].failures = FailuresAnswered(i)
             /\ Len(inv[i].summary[1].actionResults) = Len(items)
             /\ lines[2] = "- Total operations: "
                           \o ToString(Len(inv[i].args.operations))
             /\ lines[3] = "- Successful: " \o ToString(SuccessesAnswered(i))
             /\ lines[4] = "- Failed: " \o ToString(FailuresAnswered(i))
             /\ failed # <<>>
                => /\ Len(Listed(lines)) = Len(failed)
                   /\ \A k \in 1..Len(failed) :
                        Listed(lines)[k]
                          = ToString(k) \o ". Operation #" \o ToString(failed[k] - 1)
                            \o " (delete): missing [document_missing_exception]"

\* both invocations were answered, with different numbers of failures
C23_Witness ==
  /\ BulkAnswered("i1") /\ BulkAnswered("i2")
  /\ Len(inv["i1"].args.operations) = 2
  /\ Len(inv["i2"].args.operations) = 1
  /\ FailuresAnswered("i1") = 2
  /\ FailuresAnswered("i2") = 0

\* C24: a validated configuration has version "8" or "9": "8" and "9" are
\* kept and any other value, an absent one included, becomes "8"; and every
\* client built from a validated configuration has maxRetries 5 and
\* requestTimeout 30000.
C24_VersionNormalised ==
  /\ validatedConfig # None
     => /\ validatedConfig[1].version \in {Some("8"), Some("9")}
        /\ validatedConfig[1].version
             = (IF config.version \in {Some("8"), Some("9")} THEN config.version
                ELSE Some("8"))
  /\ client # None
     => /\ client[1].maxRetries = Some(5)
        /\ client[1].requestTimeout = Some(30000)

\* a client was built from a configuration with version "7"
C24_Witness ==
  /\ client # None
  /\ config.version = Some("7")

\* the report's line for the k-th failed item, found at position pos
FailedItemLine(item, pos, k) ==
  LET action == CHOOSE a \in DOMAIN item : TRUE
      error == item[action][1].error[1]
  IN ToString(k) \o ". Operation #" \o ToString(pos - 1) \o " (" \o action \o "): "
     \o (IF error.reason \in {None, Some("")} THEN "Unknown error" ELSE error.reason[1])
     \o " ["
     \o (IF error.type \in {None, Some("")} THEN "unknown_error" ELSE error.type[1])
     \o "]"

\* the failure lines of invocation i are the first five failed items, in order
FailureLinesInOrder(i) ==
  LET failed == FailedPositions(Answer(i).items, 1)
      listed == Listed(inv[i].content[1].text)
  IN failed # <<>>
     => /\ \A k \in 1..Len(failed) :
             k <= 5 => listed[k]
                         = FailedItemLine(Answer(i).items[failed[k]], failed[k], k)
        /\ Len(listed) = IF Len(failed) > 5 THEN 6 ELSE Len(failed)

\* C25, as claimed: every item of the answer is counted as a failure when
\* its action result carries an error marker and as a success otherwise, and
\* the failure lines are the first five failed items in the order of the
\* answer's items.
C25_AsClaimed ==
  \A i \in Invocations :
    BulkAnswered(i)
    => /\ inv[i].summary[1].failures = FailuresAnswered(i)
       /\ inv[i].summary[1].successes = Len(Answer(i).items) - FailuresAnswered(i)
       /\ FailureLinesInOrder(i)

\* C25, amended: an item that carries a result object under its action key
\* is counted as a failure when that result carries an error marker and as a
\* success otherwise; an item without result object is counted as neither;
\* the failure lines are the first five failed items in the order of the
\* answer's items.
C25_Classification ==
  \A i \in Invocations :
    BulkAnswered(i)
    => /\ inv[i].summary[1].failures = FailuresAnswered(i)
       /\ inv[i].summary[1].successes = SuccessesAnswered(i)
       /\ inv[i].summary[1].successes + inv[i].summary[1].failures
            = Cardinality({k \in 1..Len(Answer(i).items) :
                             HasResult(Answer(i).items[k])})
       /\ FailureLinesInOrder(i)

\* a bulk call was answered with a success, then a failure without status,
\* type or reason
C25_Witness ==
  \E i \in Invocations :
    /\ BulkAnswered(i)
    /\ Len(Answer(i).items) = 2
    /\ Answer(i).items[1] = ItemOk
    /\ Answer(i).items[2] = ItemBareError

\* the arguments pass the schema of the tool, as the schemas are documented:
\* a non-blank index or index pattern, a non-empty document id, a script with
\* a source, conflicts "abort" or "proceed", a positive maxDocs, and at least
\* one bulk operation, each of a known action on a non-blank index
PassesSchema(tool, a) ==
  /\ tool \in ToolNames \ {"list_indices", "get_cluster_health", "get_shards", "bulk",
                           "get_templates", "get_aliases"}
     => a.index \notin {"", " "}
  /\ tool = "list_indices" => a.indexPattern \notin {"", " "}
  /\ tool \in {"update_document", "delete_document"} => a.id # ""
  /\ tool = "update_by_query"
     => a.script # [missing |-> TRUE] /\ a.script.source # ""
  /\ tool \in QueryTools
     => /\ a.conflicts \in {None, Some("abort"), Some("proceed")}
        /\ a.maxDocs = None \/ a.maxDocs[1] > 0
  /\ tool = "bulk"
     => /\ a.operations # <<>>
        /\ \A k \in 1..Len(a.operations) :
             /\ a.operations[k].action \in {"index", "create", "update", "delete"}
             /\ a.operations[k].index \notin {"", " "}

\* C26: an invocation makes at most one StoreClient call; it makes exactly
\* one when its arguments pass the schema and, for bulk, no operation lacks
\* its id or body, and none otherwise; and when it made a call its envelope
\* is there only once the call has returned or thrown.
C26_OneStoreCall ==
  \A i \in Invocations :
    inv[i].tool # ""
    => LET valid == /\ PassesSchema(inv[i].tool, inv[i].args)
                    /\ inv[i].tool = "bulk"
                       => \A k \in 1..Len(inv[i].args.operations) :
                            /\ ~LacksId(inv[i].args.operations[k])
                            /\ ~LacksBody(inv[i].args.operations[k])
       IN /\ Len(inv[i].calls) <= 1
          /\ valid => Len(inv[i].calls) = 1
          /\ ~valid => inv[i].calls = <<>> /\ inv[i].outcome = None
          /\ inv[i].calls # <<>>
             => /\ inv[i].outcome = None
                   => inv[i].pc = "awaiting" /\ inv[i].content = <<>>
                /\ inv[i].outcome # None
                   => inv[i].pc = "returned" /\ inv[i].content # <<>>
          /\ inv[i].outcome # None => inv[i].calls # <<>>

\* the bulk handler has returned its report after its one call was answered
C26_Witness ==
  \E i \in Invocations :
    /\ BulkAnswered(i)
    /\ Len(inv[i].calls) = 1
    /\ Len(inv[i].args.operations) = 2
    /\ Len(inv[i].content) = 1

\* C27, as claimed: for every queryBody, one with an index key included, the
\* index of the request the search tool sends to the store is its index
\* argument.
C27_AsClaimed ==
  \A i \in Invocations :
    (inv[i].tool = "search" /\ inv[i].calls # <<>>)
    => inv[i].calls[1].params.index = inv[i].args.index

\* the lines that report, as k-th failure, an operation of the given action
\* under number n
FailureLinesNumbered(k, n, action) ==
  {ToString(k) \o ". Operation #" \o ToString(n) \o " (" \o action \o "): "
     \o reason \o " [" \o type \o "]" :
   reason \in {"missing", "Unknown error"},
   type \in {"document_missing_exception", "unknown_error"}}

\* the action key of an item of a bulk answer
ActionOf(item) == CHOOSE a \in DOMAIN item : TRUE

\* the validation errors that name an operation under number n
ValidationErrorsNumbered(n) ==
  {"Error: Operation #" \o ToString(n) \o " (" \o action \o "): " \o required :
   action \in {"index", "create", "update", "delete"},
   required \in {"Document ID is required", "Document body is required"}}

\* C28: the operation number of a bulk failure line is the zero-based
\* position of the failed item in the store's answer, so that the failure of
\* the operation at 1-based position k is printed as "Operation #" k - 1,
\* while the validation error for the operation at 1-based position k is
\* printed as "Operation #" k.
C28_OperationNumbers ==
  \A i \in Invocations :
    /\ BulkAnswered(i)
       => LET failed == FailedPositions(Answer(i).items, 1)
              listed == IF failed = <<>> THEN <<>>
                        ELSE Listed(inv[i].content[1].text)
          IN \A k \in 1..Len(failed) :
               k <= FailureLimit
               => listed[k] \in FailureLinesNumbered(k, failed[k] - 1,
                                                     ActionOf(Answer(i).items[failed[k]]))
    /\ (inv[i].tool = "bulk" /\ Returned(i) /\ inv[i].calls = <<>>)
       => LET ops == inv[i].args.operations
              invalid == {k \in 1..Len(ops) : LacksId(ops[k]) \/ LacksBody(ops[k])}
              first == CHOOSE k \in invalid : \A l \in invalid : k <= l
          IN /\ invalid # {}
             /\ inv[i].content[1].text \in {<<e>> : e \in ValidationErrorsNumbered(first)}

\* the second of two operations failed in the store and is listed as
\* "Operation #1"
C28_Witness ==
  \E i \in Invocations :
    /\ BulkAnswered(i)
    /\ Len(inv[i].args.operations) = 2
    /\ FailedPositions(Answer(i).items, 1) = <<2>>
    /\ Listed(inv[i].content[1].text)[1]
         \in FailureLinesNumbered(1, 1, ActionOf(Answer(i).items[2]))

\* the fragment of the k-th hit of the answer to search invocation i
HitFragment(i, k) ==
  inv[i].content[k + (IF Answer(i).aggregations = None THEN 1 ELSE 2)].text

\* the positions of line l in a text
PositionsOf(lines, l) == {p \in 1..Len(lines) : lines[p] = l}

\* the "(highlighted)" line of a field with the highlights hs
HighlightedLine(field, hs) == field \o " (highlighted): " \o Join(hs, " ... ")

\* the plain line of an entry of _source
PlainLine(e) == e.field \o ": " \o JSONstringify(e.value)

\* C29, as claimed: every field of a hit's _source is rendered exactly once in
\* the hit's fragment, as a "(highlighted)" line when the hit's highlight has
\* an entry for the field and as a plain "field: value" line otherwise, and
\* all highlighted lines come before all plain lines.
C29_AsClaimed ==
  \A i \in Invocations :
    (inv[i].tool = "search" /\ Returned(i) /\ Answered(i))
    => \A k \in 1..Len(Answer(i).hits.hits) :
         LET hit == Answer(i).hits.hits[k]
             lines == HitFragment(i, k)
             src == IF hit._source = None THEN <<>> ELSE hit._source[1]
             hl == IF hit.highlight = None THEN <<>> ELSE hit.highlight[1]
             marked == UNION {PositionsOf(lines, HighlightedLine(hl[h].field,
                                                                 hl[h].highlights)) :
                              h \in 1..Len(hl)}
             plain == UNION {PositionsOf(lines, PlainLine(src[s])) : s \in 1..Len(src)}
         IN /\ \A s \in 1..Len(src) :
                 IF src[s].field \in Keys(hl)
                 THEN /\ PositionsOf(lines, PlainLine(src[s])) = {}
                      /\ \E h \in 1..Len(hl) :
                           /\ hl[h].field = src[s].field
                           /\ Cardinality(PositionsOf(lines,
                                HighlightedLine(hl[h].field, hl[h].highlights))) = 1
                 ELSE Cardinality(PositionsOf(lines, PlainLine(src[s]))) = 1
            /\ \A p \in marked : \A q \in plain : p < q

\* C30: the auth of the client is chosen by a fixed precedence: the API key
\* whenever apiKey is present, username and password present or not; basic
\* auth only when apiKey is absent and username and password are both
\* present; no auth otherwise; every configuration a client is built from
\* gets exactly one of the three.
C30_AuthPrecedence ==
  client # None
  => LET auth == client[1].auth
     IN /\ auth.mode \in {"apiKey", "basic", "none"}
        /\ auth.mode = "apiKey" <=> Present(config.apiKey)
        /\ auth.mode = "basic"
             <=> (~Present(config.apiKey) /\ Present(config.username)
                  /\ Present(config.password))
        /\ auth.mode = "apiKey" => auth = [mode |-> "apiKey", apiKey |-> config.apiKey[1]]
        /\ auth.mode = "basic"
             => auth = [mode |-> "basic", username |-> config.username[1],
                        password |-> config.password[1]]
        /\ auth.mode = "none" => auth = [mode |-> "none"]

\* a client was built from a configuration with an API key, a username and a
\* password, and uses the API key
C30_Witness ==
  /\ client # None
  /\ Present(config.apiKey) /\ Present(config.username) /\ Present(config.password)
  /\ client[1].auth.mode = "apiKey"

====
